---- MODULE Spec2Model ----
(***************************************************************************)
(* A model of the rag-pipeline backend: the FastAPI handlers of            *)
(* backend/main.py (startup, ingest, query, remove_file) over the chunk    *)
(* store, the process-wide chunk cache and BM25 index, and the pure        *)
(* retrieval functions they call (tokenizer, BM25, cosine search, RRF      *)
(* merge, rerank, intent detection, refusal filter, query rewriting).      *)
(*                                                                         *)
(* Text is a sequence of one-character strings, so that the regular        *)
(* expressions of the source are modelled by what they match.  Scores are  *)
(* exact: a cosine is kept as (dot product, product of squared norms), an  *)
(* RRF total as a fraction, a BM25 score in millionths.                    *)
(***************************************************************************)
EXTENDS Integers, Sequences, FiniteSets, TLC

\* Python's None.  An optional value is None or, for an object, the one-element
\* tuple Some(object); an embedding, a non-empty tuple of numbers, stands for
\* itself.
None == <<>>
Some(x) == <<x>>
The(o) == o[1]

(***************************************************************************)
(* Characters and strings                                                  *)
(***************************************************************************)
LowerSeq == <<"a", "b", "c", "d", "e", "f", "g", "h", "i", "j", "k", "l", "m", "n", "o", "p", "q", "r", "s", "t", "u", "v", "w", "x", "y", "z">>
UpperSeq == <<"A", "B", "C", "D", "E", "F", "G", "H", "I", "J", "K", "L", "M", "N", "O", "P", "Q", "R", "S", "T", "U", "V", "W", "X", "Y", "Z">>
LowerChars == {LowerSeq[i] : i \in 1..26}
UpperChars == {UpperSeq[i] : i \in 1..26}
DigitChars == {"0", "1", "2", "3", "4", "5", "6", "7", "8", "9"}
Whitespace == {" ", "\t", "\n"}

\* \w of the re module (ASCII part): letters, digits, underscore
WordChars == LowerChars \cup UpperChars \cup DigitChars \cup {"_"}

\* str.lower, one character
LowerChar(c) ==
  IF c \in UpperChars THEN LowerSeq[CHOOSE i \in 1..26 : UpperSeq[i] = c] ELSE c

\* str.lower
Lower(s) == [i \in 1..Len(s) |-> LowerChar(s[i])]

\* s[a..b] (1-based, inclusive), empty when a > b
Slice(s, a, b) == [i \in 1..(IF b >= a THEN b - a + 1 ELSE 0) |-> s[a + i - 1]]

\* str.strip
Strip(s) ==
  LET first == CHOOSE i \in 1..Len(s) :
                 s[i] \notin Whitespace /\ \A k \in 1..(i - 1) : s[k] \in Whitespace
      last == CHOOSE i \in 1..Len(s) :
                s[i] \notin Whitespace /\ \A k \in (i + 1)..Len(s) : s[k] \in Whitespace
  IN IF \A i \in 1..Len(s) : s[i] \in Whitespace THEN <<>> ELSE Slice(s, first, last)

\* p occurs in s at position i
OccursAt(p, s, i) ==
  /\ i >= 1
  /\ i + Len(p) - 1 <= Len(s)
  /\ \A j \in 1..Len(p) : s[i + j - 1] = p[j]

\* the Python expression `p in s`
Contains(s, p) == \E i \in 1..(Len(s) + 1) : OccursAt(p, s, i)

\* whether position i of s (1..Len(s)) holds a \w character; FALSE outside s
IsWordAt(s, i) == i >= 1 /\ i <= Len(s) /\ s[i] \in WordChars

\* the regular expression's \b between positions i-1 and i
Boundary(s, i) == IsWordAt(s, i - 1) # IsWordAt(s, i)

\* the maximal runs of \w characters of s, in order, as <<first, last>> pairs
RECURSIVE WordRunsFrom(_, _)
WordRunsFrom(s, i) ==
  IF i > Len(s) THEN <<>>
  ELSE IF s[i] \notin WordChars THEN WordRunsFrom(s, i + 1)
  ELSE LET ends == {j \in i..Len(s) : \A k \in i..j : s[k] \in WordChars}
           last == CHOOSE j \in ends : \A k \in ends : k <= j
       IN <<Slice(s, i, last)>> \o WordRunsFrom(s, last + 1)

WordRuns(s) == WordRunsFrom(s, 1)

AllIn(s, cs) == \A i \in 1..Len(s) : s[i] \in cs

\* str.split(): the maximal runs of non-whitespace characters
RECURSIVE SplitFrom(_, _)
SplitFrom(s, i) ==
  IF i > Len(s) THEN <<>>
  ELSE IF s[i] \in Whitespace THEN SplitFrom(s, i + 1)
  ELSE LET last == CHOOSE j \in i..Len(s) :
                     /\ j = Len(s) \/ s[j + 1] \in Whitespace
                     /\ \A k \in i..j : s[k] \notin Whitespace
       IN <<Slice(s, i, last)>> \o SplitFrom(s, last + 1)

Split(s) == SplitFrom(s, 1)

\* " ".join(parts)
RECURSIVE Join(_)
Join(parts) ==
  IF parts = <<>> THEN <<>>
  ELSE IF Len(parts) = 1 THEN parts[1]
  ELSE parts[1] \o <<" ">> \o Join(Tail(parts))

(***************************************************************************)
(* backend/search/keyword.py: the tokenizer                                *)
(***************************************************************************)
\* re.findall(r"\b[a-z0-9]+\b", text.lower()): a run of [a-z0-9] with a word
\* boundary on both sides is a whole \w run that holds no underscore
tokenize(text) ==
  SelectSeq(WordRuns(Lower(text)), LAMBDA r : AllIn(r, LowerChars \cup DigitChars))

(***************************************************************************)
(* backend/query/intent.py                                                 *)
(***************************************************************************)
GREETING == "greeting"
GENERAL_CHAT == "general_chat"
KNOWLEDGE_QUERY == "knowledge_query"

GREETINGS ==
  {
    <<"h", "i">>,
    <<"h", "e", "l", "l", "o">>,
    <<"h", "e", "y">>,
    <<"h", "i", "y", "a">>,
    <<"h", "o", "w", "d", "y">>,
    <<"y", "o">>,
    <<"s", "u", "p">>,
    <<"g", "r", "e", "e", "t", "i", "n", "g", "s">>,
    <<"g", "o", "o", "d", " ", "m", "o", "r", "n", "i", "n", "g">>,
    <<"g", "o", "o", "d", " ", "a", "f", "t", "e", "r", "n", "o", "o", "n">>,
    <<"g", "o", "o", "d", " ", "e", "v", "e", "n", "i", "n", "g">>,
    <<"h", "i", " ", "t", "h", "e", "r", "e">>
  }

QUESTION_WORDS ==
  {
    <<"w", "h", "a", "t">>,
    <<"w", "h", "e", "r", "e">>,
    <<"w", "h", "e", "n">>,
    <<"w", "h", "o">>,
    <<"w", "h", "y">>,
    <<"h", "o", "w">>,
    <<"w", "h", "i", "c", "h">>,
    <<"w", "h", "o", "s", "e">>
  }

GreetingMaxLen == 15
ChatMaxLen == 25

\* set(re.findall(r"\b[a-z]+\b", lower))
LetterWords(lower) ==
  LET runs == WordRuns(lower)
  IN {runs[i] : i \in {j \in 1..Len(runs) : AllIn(runs[j], LowerChars)}}

detect_intent(query) ==
  LET text == Strip(query)
      lower == Lower(text)
      words == LetterWords(lower)
  IN IF text = <<>> THEN GENERAL_CHAT
     ELSE IF Len(text) < GreetingMaxLen
             /\ (words \cap GREETINGS # {} \/ lower \in GREETINGS)
       THEN GREETING
     ELSE IF Len(text) < ChatMaxLen /\ words \cap QUESTION_WORDS = {}
       THEN IF \/ Contains(lower, <<"t", "e", "l", "l", " ", "m", "e">>)
               \/ Contains(lower, <<"e", "x", "p", "l", "a", "i", "n">>)
               \/ Contains(lower, <<"d", "e", "s", "c", "r", "i", "b", "e">>)
              THEN KNOWLEDGE_QUERY
              ELSE GENERAL_CHAT
     ELSE KNOWLEDGE_QUERY

(***************************************************************************)
(* backend/query/refusal.py                                                *)
(***************************************************************************)
REASON_NONE == "none"
REASON_PII == "pii"
REASON_LEGAL_MEDICAL == "legal_medical"

LEGAL_MEDICAL_KEYWORDS ==
  {
    <<"l", "e", "g", "a", "l", " ", "a", "d", "v", "i", "c", "e">>,
    <<"l", "a", "w", "s", "u", "i", "t">>,
    <<"s", "u", "e">>,
    <<"a", "t", "t", "o", "r", "n", "e", "y">>,
    <<"l", "a", "w", "y", "e", "r">>,
    <<"m", "e", "d", "i", "c", "a", "l", " ", "a", "d", "v", "i", "c", "e">>,
    <<"d", "i", "a", "g", "n", "o", "s", "e">>,
    <<"p", "r", "e", "s", "c", "r", "i", "p", "t", "i", "o", "n">>,
    <<"d", "o", "c", "t", "o", "r", " ", "s", "a", "i", "d">>
  }

DigitsAt(s, i, n) ==
  /\ i >= 1
  /\ i + n - 1 <= Len(s)
  /\ \A j \in i..(i + n - 1) : s[j] \in DigitChars

\* r"\b\d{3}-\d{2}-\d{4}\b"
MatchesSSN(s) ==
  \E i \in 1..Len(s) :
    /\ Boundary(s, i)
    /\ DigitsAt(s, i, 3)
    /\ OccursAt(<<"-">>, s, i + 3)
    /\ DigitsAt(s, i + 4, 2)
    /\ OccursAt(<<"-">>, s, i + 6)
    /\ DigitsAt(s, i + 7, 4)
    /\ Boundary(s, i + 11)

\* r"\b\d{16}\b"
MatchesCard(s) ==
  \E i \in 1..Len(s) :
    Boundary(s, i) /\ DigitsAt(s, i, 16) /\ Boundary(s, i + 16)

EmailLocalChars ==
  LowerChars \cup UpperChars \cup DigitChars \cup {".", "_", "%", "+", "-"}
EmailDomainChars == LowerChars \cup UpperChars \cup DigitChars \cup {".", "-"}
EmailTldChars == LowerChars \cup UpperChars \cup {"|"}

\* r"\b[A-Za-z0-9._%+-]+@[A-Za-z0-9.-]+\.[A-Z|a-z]{2,}\b": a match exists iff
\* the text splits as local part, "@", domain, ".", top-level part
MatchesEmail(s) ==
  \E a \in 1..Len(s) :
    /\ s[a] = "@"
    /\ \E b \in 1..(a - 1) :
         Boundary(s, b) /\ \A j \in b..(a - 1) : s[j] \in EmailLocalChars
    /\ \E d \in (a + 2)..Len(s) :
         /\ s[d] = "."
         /\ \A j \in (a + 1)..(d - 1) : s[j] \in EmailDomainChars
         /\ \E e \in (d + 2)..Len(s) :
              /\ \A j \in (d + 1)..e : s[j] \in EmailTldChars
              /\ Boundary(s, e + 1)

\* the (pattern, label) pairs of PII_PATTERNS, tried in order; "": no match
PiiLabel(text) ==
  IF MatchesSSN(text) THEN "SSN"
  ELSE IF MatchesCard(text) THEN "credit card"
  ELSE IF MatchesEmail(text) THEN "email"
  ELSE ""

check_refusal(query) ==
  LET text == Strip(query)
      lower == Lower(text)
  IN IF PiiLabel(text) # ""
       THEN [should_refuse |-> TRUE, reason |-> REASON_PII, label |-> PiiLabel(text)]
     ELSE IF \E kw \in LEGAL_MEDICAL_KEYWORDS : Contains(lower, kw)
       THEN [should_refuse |-> TRUE, reason |-> REASON_LEGAL_MEDICAL, label |-> ""]
     ELSE [should_refuse |-> FALSE, reason |-> REASON_NONE, label |-> ""]

(***************************************************************************)
(* backend/query/transform.py                                              *)
(***************************************************************************)
ACRONYM_EXPANSIONS == <<
  <<<<"a", "i">>,
    <<"a", "r", "t", "i", "f", "i", "c", "i", "a", "l", " ", "i", "n", "t", "e", "l", "l", "i", "g", "e", "n", "c", "e">>>>,
  <<<<"m", "l">>,
    <<"m", "a", "c", "h", "i", "n", "e", " ", "l", "e", "a", "r", "n", "i", "n", "g">>>>,
  <<<<"n", "l", "p">>,
    <<"n", "a", "t", "u", "r", "a", "l", " ", "l", "a", "n", "g", "u", "a", "g", "e", " ", "p", "r", "o", "c", "e", "s", "s", "i", "n", "g">>>>,
  <<<<"a", "p", "i">>,
    <<"a", "p", "p", "l", "i", "c", "a", "t", "i", "o", "n", " ", "p", "r", "o", "g", "r", "a", "m", "m", "i", "n", "g", " ", "i", "n", "t", "e", "r", "f", "a", "c", "e">>>>,
  <<<<"r", "a", "g">>,
    <<"r", "e", "t", "r", "i", "e", "v", "a", "l", " ", "a", "u", "g", "m", "e", "n", "t", "e", "d", " ", "g", "e", "n", "e", "r", "a", "t", "i", "o", "n">>>>,
  <<<<"l", "l", "m">>,
    <<"l", "a", "r", "g", "e", " ", "l", "a", "n", "g", "u", "a", "g", "e", " ", "m", "o", "d", "e", "l">>>>
>>

\* re.sub(r"[^a-zA-Z0-9]", "", w).lower()
CleanWord(w) ==
  Lower(SelectSeq(w, LAMBDA c : c \in LowerChars \cup UpperChars \cup DigitChars))

\* the words of the query, a known acronym preceded by its expansion
ExpandWord(w) ==
  LET hits == {i \in 1..Len(ACRONYM_EXPANSIONS) : ACRONYM_EXPANSIONS[i][1] = CleanWord(w)}
  IN IF hits = {} THEN w
     ELSE ACRONYM_EXPANSIONS[CHOOSE i \in hits : TRUE][2] \o <<" ">> \o w

ExpandAcronyms(text) ==
  LET words == Split(text)
  IN Join([i \in 1..Len(words) |-> ExpandWord(words[i])])

\* the leftmost position at which `head` (lower case, ending in the one space
\* that \s+ matches in a text joined with single spaces) occurs with at least
\* one character after it; 0 when there is none
FirstHead(text, head) ==
  LET lower == Lower(text)
      at == {i \in 1..Len(text) :
               OccursAt(head, lower, i) /\ i + Len(head) <= Len(text)}
  IN IF at = {} THEN 0 ELSE CHOOSE i \in at : \A j \in at : i <= j

\* re.sub of a pattern  head(.+)\?*$  by  repl \1 : the greedy group takes the
\* rest of the text
RewriteTail(text, head, repl) ==
  LET i == FirstHead(text, head)
  IN Slice(text, 1, i - 1) \o repl \o Slice(text, i + Len(head), Len(text))

\* the text without its trailing question marks
RECURSIVE DropQuestionMarks(_)
DropQuestionMarks(s) ==
  IF s # <<>> /\ s[Len(s)] = "?" THEN DropQuestionMarks(Slice(s, 1, Len(s) - 1)) ELSE s

HowDoes == <<"h", "o", "w", " ", "d", "o", "e", "s", " ">>
SpaceWork == <<" ", "w", "o", "r", "k">>

\* r"how\s+does\s+(.+)\s+work\?*$": the text ends in " work" and question
\* marks, and the group, between "how does " and that " work", is not empty
HowDoesAt(text) ==
  LET lower == Lower(text)
      body == DropQuestionMarks(lower)
      at == {i \in 1..Len(text) :
               /\ OccursAt(HowDoes, lower, i)
               /\ OccursAt(SpaceWork, body, Len(body) - Len(SpaceWork) + 1)
               /\ i + Len(HowDoes) <= Len(body) - Len(SpaceWork)}
  IN IF at = {} THEN 0 ELSE CHOOSE i \in at : \A j \in at : i <= j

RewriteHowDoes(text) ==
  LET i == HowDoesAt(text)
      body == DropQuestionMarks(text)
  IN Slice(text, 1, i - 1) \o <<"h", "o", "w", " ">>
       \o Slice(text, i + Len(HowDoes), Len(body) - Len(SpaceWork))
       \o <<" ", "w", "o", "r", "k", "s", " ", "m", "e", "c", "h", "a", "n", "i", "s", "m", " ", "p", "r", "o", "c", "e", "s", "s">>

WhatIs == <<"w", "h", "a", "t", " ", "i", "s", " ">>
WhatAre == <<"w", "h", "a", "t", " ", "a", "r", "e", " ">>
Define == <<"d", "e", "f", "i", "n", "e", " ">>
Explain == <<"e", "x", "p", "l", "a", "i", "n", " ">>
Why == <<"w", "h", "y", " ">>
DefinitionExplanationOf == <<"d", "e", "f", "i", "n", "i", "t", "i", "o", "n", " ", "e", "x", "p", "l", "a", "n", "a", "t", "i", "o", "n", " ", "o", "f", " ">>
DefinitionOf == <<"d", "e", "f", "i", "n", "i", "t", "i", "o", "n", " ", "o", "f", " ">>
ExplanationOf == <<"e", "x", "p", "l", "a", "n", "a", "t", "i", "o", "n", " ", "o", "f", " ">>
ReasonsCausesFor == <<"r", "e", "a", "s", "o", "n", "s", " ", "c", "a", "u", "s", "e", "s", " ", "f", "o", "r", " ">>

\* def_patterns, tried in order; the first that matches rewrites the text
ApplyDefPatterns(text) ==
  IF FirstHead(text, WhatIs) # 0 THEN RewriteTail(text, WhatIs, DefinitionExplanationOf)
  ELSE IF FirstHead(text, WhatAre) # 0 THEN RewriteTail(text, WhatAre, DefinitionExplanationOf)
  ELSE IF FirstHead(text, Define) # 0 THEN RewriteTail(text, Define, DefinitionOf)
  ELSE IF FirstHead(text, Explain) # 0 THEN RewriteTail(text, Explain, ExplanationOf)
  ELSE IF HowDoesAt(text) # 0 THEN RewriteHowDoes(text)
  ELSE IF FirstHead(text, Why) # 0 THEN RewriteTail(text, Why, ReasonsCausesFor)
  ELSE text

transform_query(query) ==
  LET text == Strip(query)
  IN IF text = <<>> THEN text
     ELSE Strip(ApplyDefPatterns(ExpandAcronyms(text)))

(***************************************************************************)
(* Sorting and slicing as Python does them                                 *)
(***************************************************************************)
\* list.sort(key=..., reverse=True): descending, and stable (elements that
\* compare equal keep their order).  Element i lands after every element that
\* is greater and after every earlier element that is equal.
\* `below` holds the pairs <<i, j>> of positions with key(s[i]) < key(s[j]).
SortDesc(s, below) ==
  LET n == Len(s)
      pos(i) == 1 + Cardinality({j \in 1..n : <<i, j>> \in below})
                  + Cardinality({j \in 1..(i - 1) :
                                   <<j, i>> \notin below /\ <<i, j>> \notin below})
  IN [p \in 1..n |-> s[CHOOSE i \in 1..n : pos(i) = p]]

\* s[:k]
Take(s, k) ==
  IF k >= 0 THEN SubSeq(s, 1, IF k < Len(s) THEN k ELSE Len(s))
  ELSE SubSeq(s, 1, IF Len(s) + k > 0 THEN Len(s) + k ELSE 0)

(***************************************************************************)
(* Cosine similarity (backend/search/semantic.py, retrieval/rerank.py)     *)
(*                                                                         *)
(* A vector is a tuple of integers.  The cosine of q and v, the dot        *)
(* product of the two normalised vectors, is kept as the pair              *)
(* [num |-> q.v, den |-> |q|^2 |v|^2], which stands for num / sqrt(den); a *)
(* zero vector normalises to zero (the 1e-10 added to its norm), so its    *)
(* cosine is 0.                                                            *)
(***************************************************************************)
RECURSIVE DotFrom(_, _, _)
DotFrom(a, b, i) == IF i > Len(a) THEN 0 ELSE a[i] * b[i] + DotFrom(a, b, i + 1)

Dot(a, b) == DotFrom(a, b, 1)

Cosine(q, v) ==
  IF Dot(q, q) = 0 \/ Dot(v, v) = 0 THEN [num |-> 0, den |-> 1]
  ELSE [num |-> Dot(q, v), den |-> Dot(q, q) * Dot(v, v)]

SignedSquare(n) == IF n < 0 THEN 0 - n * n ELSE n * n

\* a < b for two cosines
CosLess(a, b) == SignedSquare(a.num) * b.den < SignedSquare(b.num) * a.den

\* the order of the (position, cosine) pairs that the sorts compare
PairCosLess(s) == {<<i, j>> \in (1..Len(s)) \X (1..Len(s)) : CosLess(s[i][2], s[j][2])}

\* chunk.get("embedding") of the chunk at 0-based position i
EmbeddingAt(chunks, i) == chunks[i + 1].embedding

RECURSIVE SemanticScores(_, _, _)
SemanticScores(query_embedding, chunks, i) ==
  IF i >= Len(chunks) THEN <<>>
  ELSE (IF EmbeddingAt(chunks, i) = None THEN <<>>
        ELSE << <<i, Cosine(query_embedding, EmbeddingAt(chunks, i))>> >>)
       \o SemanticScores(query_embedding, chunks, i + 1)

semantic_search(query_embedding, chunks, top_k) ==
  IF chunks = <<>> THEN <<>>
  ELSE LET scores == SemanticScores(query_embedding, chunks, 0)
       IN Take(SortDesc(scores, PairCosLess(scores)), top_k)

\* a rerank that scores a candidate without a vector 0 instead of dropping it
RECURSIVE RerankScoresZeroForMissing(_, _, _)
RerankScoresZeroForMissing(rrf_results, query_embedding, chunks) ==
  IF rrf_results = <<>> THEN <<>>
  ELSE LET idx == rrf_results[1][1]
       IN (IF idx >= Len(chunks) THEN <<>>
           ELSE IF EmbeddingAt(chunks, idx) = None
             THEN << <<idx, [num |-> 0, den |-> 1]>> >>
           ELSE << <<idx, Cosine(query_embedding, EmbeddingAt(chunks, idx))>> >>)
          \o RerankScoresZeroForMissing(Tail(rrf_results), query_embedding, chunks)

RECURSIVE RerankScores(_, _, _)
RerankScores(rrf_results, query_embedding, chunks) ==
  IF rrf_results = <<>> THEN <<>>
  ELSE LET idx == rrf_results[1][1]
       IN (IF idx >= Len(chunks) THEN <<>>
           ELSE IF EmbeddingAt(chunks, idx) = None THEN <<>>
           ELSE << <<idx, Cosine(query_embedding, EmbeddingAt(chunks, idx))>> >>)
          \o RerankScores(Tail(rrf_results), query_embedding, chunks)

rerank_by_semantic(rrf_results, query_embedding, chunks, top_k) ==
  IF rrf_results = <<>> \/ chunks = <<>> THEN <<>>
  ELSE LET scores == RerankScores(rrf_results, query_embedding, chunks)
       IN Take(SortDesc(scores, PairCosLess(scores)), top_k)

(***************************************************************************)
(* BM25 (backend/search/keyword.py)                                        *)
(*                                                                         *)
(* A score is an integer number of millionths.  avgdl is kept as the       *)
(* fraction (sum of the document lengths) / N.                             *)
(***************************************************************************)
K1_NUM == 3
K1_DEN == 2
B_NUM == 3
B_DEN == 4

\* round(10^6 * math.log(n)) for n = 1..40
LnMicro == <<0, 693147, 1098612, 1386294, 1609438, 1791759, 1945910, 2079442, 2197225, 2302585, 2397895, 2484907, 2564949, 2639057, 2708050, 2772589, 2833213, 2890372, 2944439, 2995732, 3044522, 3091042, 3135494, 3178054, 3218876, 3258097, 3295837, 3332205, 3367296, 3401197, 3433987, 3465736, 3496508, 3526361, 3555348, 3583519, 3610918, 3637586, 3663562, 3688879>>

RECURSIVE SumSeq(_)
SumSeq(s) == IF s = <<>> THEN 0 ELSE s[1] + SumSeq(Tail(s))

Range(s) == {s[i] : i \in 1..Len(s)}

Count(tokens, t) == Cardinality({i \in 1..Len(tokens) : tokens[i] = t})

\* BM25Index.build
build(chunks) ==
  LET doc_tokens == [i \in 1..Len(chunks) |-> tokenize(chunks[i].text)]
      doc_len == [i \in 1..Len(chunks) |-> Len(doc_tokens[i])]
      terms == UNION {Range(doc_tokens[i]) : i \in 1..Len(chunks)}
  IN [doc_tokens |-> doc_tokens,
      doc_len |-> doc_len,
      N |-> Len(chunks),
      avgdl |-> [num |-> SumSeq(doc_len), den |-> Len(chunks)],
      doc_freq |-> [t \in terms |->
                      Cardinality({i \in 1..Len(chunks) : t \in Range(doc_tokens[i])})]]

\* BM25Index._idf: log((N - df + 0.5) / (df + 0.5) + 1) = log((2N + 2) / (2df + 1))
idf(index, term) ==
  LET df == IF term \in DOMAIN index.doc_freq THEN index.doc_freq[term] ELSE 0
  IN IF df = 0 THEN 0 ELSE LnMicro[2 * index.N + 2] - LnMicro[2 * df + 1]

\* one term of BM25Index.score:  idf * f * (k1 + 1) / (f + k1 * norm)  with
\* norm = 1 - b + b * dl / avgdl, all fractions cleared
TermScore(index, term, f, dl) ==
  LET sum == index.avgdl.num
      norm_num == (B_DEN - B_NUM) * sum + B_NUM * dl * index.avgdl.den
      norm_den == B_DEN * sum
  IN (idf(index, term) * f * (K1_NUM + K1_DEN) * norm_den)
       \div (f * K1_DEN * norm_den + K1_NUM * norm_num)

RECURSIVE SumTerms(_, _, _)
SumTerms(index, terms, doc_idx) ==
  IF terms = {} THEN 0
  ELSE LET t == CHOOSE x \in terms : TRUE
           tokens == index.doc_tokens[doc_idx + 1]
       IN TermScore(index, t, Count(tokens, t), index.doc_len[doc_idx + 1])
            + SumTerms(index, terms \ {t}, doc_idx)

\* BM25Index.score
score(index, query_tokens, doc_idx) ==
  IF doc_idx >= Len(index.doc_tokens) THEN 0
  ELSE SumTerms(index, Range(query_tokens) \cap Range(index.doc_tokens[doc_idx + 1]), doc_idx)

PairLess(s) == {<<i, j>> \in (1..Len(s)) \X (1..Len(s)) : s[i][2] < s[j][2]}

\* a search that keeps the fragments of score 0
SearchKeepingZero(index, query, top_k) ==
  IF index.doc_tokens = <<>> THEN <<>>
  ELSE IF tokenize(query) = <<>> THEN <<>>
  ELSE LET q_tokens == tokenize(query)
           scores == [i \in 1..index.N |-> <<i - 1, score(index, q_tokens, i - 1)>>]
       IN Take(SortDesc(scores, PairLess(scores)), top_k)

\* BM25Index.search
search(index, query, top_k) ==
  IF index.doc_tokens = <<>> THEN <<>>
  ELSE IF tokenize(query) = <<>> THEN <<>>
  ELSE LET q_tokens == tokenize(query)
           scores == [i \in 1..index.N |-> <<i - 1, score(index, q_tokens, i - 1)>>]
           positive == SelectSeq(scores, LAMBDA x : x[2] > 0)
       IN Take(SortDesc(positive, PairLess(positive)), top_k)

\* keyword_search: <<results, index>>; the index (None or Some(index)) is
\* built when none is given
keyword_search(query, chunks, index, top_k) ==
  LET used == IF index = None THEN build(chunks) ELSE The(index)
  IN <<search(used, query, top_k), Some(used)>>

(***************************************************************************)
(* Reciprocal rank fusion (backend/search/hybrid.py)                       *)
(*                                                                         *)
(* An RRF total is the fraction [num, den].                                *)
(***************************************************************************)
RRF_K == 60

FracAdd(a, b) == [num |-> a.num * b.den + b.num * a.den, den |-> a.den * b.den]
FracLess(a, b) == a.num * b.den < b.num * a.den
FracEq(a, b) == a.num * b.den = b.num * a.den
PairFracLess(s) == {<<i, j>> \in (1..Len(s)) \X (1..Len(s)) : FracLess(s[i][2], s[j][2])}

\* an update that stores the term instead of adding it: scores[idx] = 1.0 / (k + rank)
RrfAddOverwriting(scores, idx, k, rank) ==
  LET term == [num |-> 1, den |-> k + rank]
      at == {i \in 1..Len(scores) : scores[i][1] = idx}
  IN IF at = {} THEN Append(scores, <<idx, term>>)
     ELSE [scores EXCEPT ![CHOOSE i \in at : TRUE] = <<idx, term>>]

\* scores[idx] = scores.get(idx, 0.0) + 1.0 / (k + rank), on the dict kept as
\* the sequence of its (key, value) items in insertion order
RrfAdd(scores, idx, k, rank) ==
  LET term == [num |-> 1, den |-> k + rank]
      at == {i \in 1..Len(scores) : scores[i][1] = idx}
  IN IF at = {} THEN Append(scores, <<idx, term>>)
     ELSE [scores EXCEPT ![CHOOSE i \in at : TRUE] = <<idx, FracAdd(@[2], term)>>]

\* one of the two loops of rrf_merge, from rank `rank` on
RECURSIVE RrfAccumulate(_, _, _, _)
RrfAccumulate(scores, results, k, rank) ==
  IF rank > Len(results) THEN scores
  ELSE RrfAccumulate(RrfAdd(scores, results[rank][1], k, rank), results, k, rank + 1)

rrf_merge(semantic_results, keyword_results, k, top_k) ==
  LET scores == RrfAccumulate(RrfAccumulate(<<>>, semantic_results, k, 1),
                              keyword_results, k, 1)
  IN Take(SortDesc(scores, PairFracLess(scores)), top_k)

\* hybrid_search: <<merged, keyword_index>>
hybrid_search(query_embedding, query_text, chunks, keyword_index, top_k) ==
  LET semantic_results == semantic_search(query_embedding, chunks, top_k)
      kw == keyword_search(query_text, chunks, keyword_index, top_k)
  IN <<rrf_merge(semantic_results, kw[1], RRF_K, top_k), kw[2]>>

(***************************************************************************)
(* backend/ingestion/pdf_extractor.py                                      *)
(*                                                                         *)
(* An uploaded file is [filename, corrupt, raw_pages]: what fitz makes of  *)
(* its bytes, either a failure to open it or the raw text of each page.    *)
(***************************************************************************)
\* re.sub(pattern, repl, text) for a pattern that matches the maximal runs, at
\* least `least` long, of characters of `cs`
RECURSIVE CollapseFrom(_, _, _, _, _)
CollapseFrom(s, i, cs, least, repl) ==
  IF i > Len(s) THEN <<>>
  ELSE IF s[i] \notin cs THEN <<s[i]>> \o CollapseFrom(s, i + 1, cs, least, repl)
  ELSE LET ends == {j \in i..Len(s) : \A k \in i..j : s[k] \in cs}
           last == CHOOSE j \in ends : \A k \in ends : k <= j
       IN (IF last - i + 1 >= least THEN repl ELSE Slice(s, i, last))
          \o CollapseFrom(s, last + 1, cs, least, repl)

\* _normalize_text
normalize_text(text) ==
  IF text = <<>> THEN <<>>
  ELSE Strip(CollapseFrom(CollapseFrom(text, 1, {" ", "\t"}, 1, <<" ">>),
                          1, {"\n"}, 2, <<"\n">>))

\* the pages loop of extract_text_from_pdf: pages without text are left out,
\* page numbers count from 1
RECURSIVE ExtractPages(_, _, _)
ExtractPages(raw_pages, page_num, source_name) ==
  IF page_num >= Len(raw_pages) THEN <<>>
  ELSE LET text == normalize_text(raw_pages[page_num + 1])
       IN (IF Strip(text) # <<>>
             THEN <<[text |-> text, page |-> page_num + 1, source_file |-> source_name]>>
             ELSE <<>>)
          \o ExtractPages(raw_pages, page_num + 1, source_name)

\* extract_text_from_pdf: None stands for the ValueError it raises on a file
\* that cannot be opened, else Some(pages)
extract_text_from_pdf(upload) ==
  IF upload.corrupt THEN None
  ELSE Some(ExtractPages(upload.raw_pages, 0, upload.filename))

(***************************************************************************)
(* backend/ingestion/chunker.py                                            *)
(***************************************************************************)
CHUNK_SIZE == 400
CHUNK_OVERLAP == 50
MAX_PART_LEN == 400

SentenceEnd == {".", "!", "?"}

\* the length of the match of r"(?<=[.!?])\s+|\n+" that starts at position i,
\* 0 when none does
SplitMatchLen(s, i) ==
  LET cs == IF i > 1 /\ s[i - 1] \in SentenceEnd /\ s[i] \in Whitespace THEN Whitespace
            ELSE IF s[i] = "\n" THEN {"\n"}
            ELSE {}
      ends == {j \in i..Len(s) : \A k \in i..j : s[k] \in cs}
  IN IF cs = {} THEN 0 ELSE Cardinality(ends)

\* re.split(r"(?<=[.!?])\s+|\n+", text), from position i on, `from` being where
\* the current part began: the part ends at the first match at or after i
RECURSIVE ReSplit(_, _, _)
ReSplit(s, from, i) ==
  LET matches == {j \in i..Len(s) : SplitMatchLen(s, j) > 0}
      m == CHOOSE j \in matches : \A k \in i..(j - 1) : k \notin matches
  IN IF matches = {} THEN <<Slice(s, from, Len(s))>>
     ELSE <<Slice(s, from, m - 1)>>
            \o ReSplit(s, m + SplitMatchLen(s, m), m + SplitMatchLen(s, m))

\* the fallback of _split_sentences: a long part is cut at word boundaries
RECURSIVE SplitWords(_, _, _, _)
SplitWords(words, current, current_len, max_part_len) ==
  IF words = <<>> THEN (IF current # <<>> THEN <<Join(current)>> ELSE <<>>)
  ELSE LET w == words[1]
       IN IF current_len + Len(w) + 1 > max_part_len /\ current # <<>>
            THEN <<Join(current)>> \o SplitWords(Tail(words), <<w>>, Len(w), max_part_len)
            ELSE SplitWords(Tail(words), Append(current, w),
                            current_len + Len(w) + (IF current_len # 0 THEN 1 ELSE 0),
                            max_part_len)

RECURSIVE SplitParts(_, _)
SplitParts(parts, max_part_len) ==
  IF parts = <<>> THEN <<>>
  ELSE LET q == Strip(parts[1])
       IN (IF q = <<>> THEN <<>>
           ELSE IF Len(q) <= max_part_len THEN <<q>>
           ELSE SplitWords(Split(q), <<>>, 0, max_part_len))
          \o SplitParts(Tail(parts), max_part_len)

\* _split_sentences
split_sentences(text, max_part_len) == SplitParts(ReSplit(text, 1, 1), max_part_len)

\* an overlap loop that tests the budget before it adds the unit
RECURSIVE OverlapOfTestedBeforeAdding(_, _, _, _)
OverlapOfTestedBeforeAdding(current, overlap_text, overlap_len, overlap) ==
  IF current = <<>> THEN <<overlap_text, overlap_len>>
  ELSE LET s == current[Len(current)]
       IN IF overlap_len <= overlap
            THEN OverlapOfTestedBeforeAdding(SubSeq(current, 1, Len(current) - 1),
                                             <<s>> \o overlap_text,
                                             overlap_len + Len(s) + 1, overlap)
            ELSE <<overlap_text, overlap_len>>

\* the overlap loop of _chunk_page_text: the longest suffix of `current` taken
\* unit by unit from the end while overlap_len + len(s) + 1 <= overlap;
\* <<units, overlap_len>>
RECURSIVE OverlapOf(_, _, _, _)
OverlapOf(current, overlap_text, overlap_len, overlap) ==
  IF current = <<>> THEN <<overlap_text, overlap_len>>
  ELSE LET s == current[Len(current)]
       IN IF overlap_len + Len(s) + 1 <= overlap
            THEN OverlapOf(SubSeq(current, 1, Len(current) - 1), <<s>> \o overlap_text,
                           overlap_len + Len(s) + 1, overlap)
            ELSE <<overlap_text, overlap_len>>

Chunk(text, source_file, page, chunk_index) ==
  [text |-> text, source_file |-> source_file, page |-> page, chunk_index |-> chunk_index]

\* a closing test that forgets `and current`
ClosesOnEmpty(current, current_len, sent_len, chunk_size) ==
  current_len + sent_len > chunk_size

\* `if current_len + sent_len > chunk_size and current`
Closes(current, current_len, sent_len, chunk_size) ==
  current_len + sent_len > chunk_size /\ current # <<>>

\* the loop of _chunk_page_text over the sentences, and the chunk it closes last
RECURSIVE PackSentences(_, _, _, _, _, _, _, _)
PackSentences(sentences, current, current_len, chunk_idx, source_file, page, chunk_size, overlap) ==
  IF sentences = <<>>
    THEN (IF current # <<>>
            THEN <<Chunk(Strip(Join(current)), source_file, page, chunk_idx)>>
            ELSE <<>>)
  ELSE LET sent == sentences[1]
           sent_len == Len(sent) + 1
       IN IF Closes(current, current_len, sent_len, chunk_size)
            THEN LET kept == OverlapOf(current, <<>>, 0, overlap)
                 IN <<Chunk(Strip(Join(current)), source_file, page, chunk_idx)>>
                      \o PackSentences(Tail(sentences), Append(kept[1], sent),
                                       kept[2] + sent_len, chunk_idx + 1,
                                       source_file, page, chunk_size, overlap)
            ELSE PackSentences(Tail(sentences), Append(current, sent),
                               current_len + sent_len, chunk_idx,
                               source_file, page, chunk_size, overlap)

\* _chunk_page_text
chunk_page_text(text, source_file, page, chunk_size, overlap) ==
  IF Strip(text) = <<>> THEN <<>>
  ELSE PackSentences(split_sentences(text, MAX_PART_LEN), <<>>, 0, 0,
                     source_file, page, chunk_size, overlap)

RECURSIVE ChunkPages(_, _, _)
ChunkPages(pages, chunk_size, overlap) ==
  IF pages = <<>> THEN <<>>
  ELSE chunk_page_text(pages[1].text, pages[1].source_file, pages[1].page,
                       chunk_size, overlap)
       \o ChunkPages(Tail(pages), chunk_size, overlap)

\* chunk_text: the chunks of every page, then "assign global chunk indices"
chunk_text(pages, chunk_size, overlap) ==
  LET chunks == ChunkPages(pages, chunk_size, overlap)
  IN [i \in 1..Len(chunks) |-> [chunks[i] EXCEPT !.chunk_index = i - 1]]

(***************************************************************************)
(* backend/storage/store.py                                                *)
(***************************************************************************)
\* the records save_chunks writes, one per chunk
Records(chunks) ==
  [i \in 1..Len(chunks) |->
     [text |-> chunks[i].text, source_file |-> chunks[i].source_file,
      page |-> chunks[i].page, chunk_index |-> chunks[i].chunk_index]]

\* the embeddings= argument main.py gives save_chunks: each record carries its
\* chunk's vector under "embedding", the key semantic_search and
\* rerank_by_semantic read back
WithEmbeddings(records, embeddings) ==
  [i \in 1..Len(records) |->
     [text |-> records[i].text, source_file |-> records[i].source_file,
      page |-> records[i].page, chunk_index |-> records[i].chunk_index,
      embedding |-> IF i <= Len(embeddings) THEN embeddings[i] ELSE None]]

\* ChunkStore.save_chunks: chunks.json is opened with "w", the records replace
\* what the file held
save_chunks(chunks, embeddings) == WithEmbeddings(Records(chunks), embeddings)

\* ChunkStore.replace_chunks: the file holds the given records
replace_chunks(records) == records

(***************************************************************************)
(* Inputs of the model                                                     *)
(***************************************************************************)
MaxFiles == 2
MaxLoads == 3

\* the text fitz reads from a page
PageTexts == [
  cat |-> <<"c", "a", "t", " ", "s", "a", "t", ".", " ", "c", "a", "t", " ", "h", "i", "d">>,
  dog |-> <<"d", "o", "g", " ", "r", "a", "n", "\n", "f", "a", "r">>,
  blank |-> <<" ", "\n", " ">>
]

\* the names of the uploads and of the files asked to be deleted
FileNames == [
  a |-> <<"a", ".", "p", "d", "f">>,
  b |-> <<"b", ".", "P", "D", "F">>,
  c |-> <<"c", ".", "p", "d", "f">>,
  txt |-> <<"n", ".", "t", "x", "t">>,
  old |-> <<"o", "l", "d", ".", "p", "d", "f">>,
  zz |-> <<"z", "z", ".", "p", "d", "f">>
]

\* the uploads a request may carry: a one-page PDF, a PDF of two pages of text
\* around a blank one, a PDF without text, a PDF fitz cannot open, a text file
Uploads == {
  [filename |-> FileNames.a, corrupt |-> FALSE, raw_pages |-> <<PageTexts.cat>>],
  [filename |-> FileNames.b, corrupt |-> FALSE, raw_pages |-> <<PageTexts.dog, PageTexts.blank, PageTexts.cat>>],
  [filename |-> FileNames.c, corrupt |-> FALSE, raw_pages |-> <<PageTexts.blank>>],
  [filename |-> FileNames.a, corrupt |-> TRUE, raw_pages |-> <<>>],
  [filename |-> FileNames.txt, corrupt |-> FALSE, raw_pages |-> <<>>]
}

IngestRequests == UNION {[1..n -> Uploads] : n \in 0..MaxFiles}

DeleteNames == {FileNames.a, FileNames.b, FileNames.old, FileNames.zz}

\* the vectors the embedding service answers with
ChunkVectors == {<<1, 0>>, <<0, 1>>}
QueryVectors == {<<1, 0>>, <<1, 1>>}

\* what chunks.json may hold when the process starts: nothing, or a record
\* written without an embedding
InitialFiles == {
  <<>>,
  <<[text |-> PageTexts.cat, source_file |-> FileNames.old, page |-> 1, chunk_index |-> 0,
     embedding |-> None]>>
}

\* the questions a client sends
QuestionTexts == [
  hi |-> <<"h", "i">>,
  thanks |-> <<"o", "k", " ", "t", "h", "a", "n", "k", "s">>,
  blank |-> <<" ", " ">>,
  card |-> <<"1", "2", "3", "4", "5", "6", "7", "8", "1", "2", "3", "4", "5", "6", "7", "8">>,
  whatcard |-> <<"w", "h", "a", "t", " ", "i", "s", " ", "1", "2", "3", "4", "5", "6", "7", "8", "1", "2", "3", "4", "5", "6", "7", "8">>,
  sue |-> <<"w", "h", "y", " ", "s", "u", "e", " ", "t", "h", "e", " ", "d", "o", "g">>,
  cat |-> <<"w", "h", "a", "t", " ", "i", "s", " ", "c", "a", "t", "?">>,
  dog |-> <<" ", "e", "x", "p", "l", "a", "i", "n", " ", "d", "o", "g">>,
  who |-> <<"w", "h", "o", " ", "a", "m", " ", "i">>
]

Questions == {QuestionTexts[k] : k \in DOMAIN QuestionTexts}

(***************************************************************************)
(* backend/main.py: the state of the process                               *)
(***************************************************************************)
VARIABLES
  store,         \* the records chunks.json holds
  chunks_cache,  \* _chunks_cache
  bm25_index,    \* _bm25_index: None or Some(index)
  started,       \* the startup event has run
  cache_gen,     \* how many times _load_index has assigned _chunks_cache
  index_gen,     \* the value of cache_gen for which _bm25_index was built
  ingest_st,     \* the ingest request suspended in `await upload.read()`
  query_st,      \* the query request being served
  response,      \* the response of the ingest or delete request just served
  call           \* a call of a ranking function: its arguments and its result

server_vars == <<store, chunks_cache, bm25_index, started, cache_gen, index_gen,
                 ingest_st, query_st, response>>

vars == <<server_vars, call>>

NoCall == [fn |-> "none"]

IngestIdle == [pc |-> "idle", pdf_files |-> <<>>, all_chunks |-> <<>>]

QueryIdle ==
  [pc |-> "idle", question |-> <<>>, intent |-> "", reason |-> REASON_NONE,
   embedding |-> None, rrf_results |-> <<>>, reranked |-> <<>>,
   calls |-> {}, cache_reads |-> {}, index_reads |-> {},
   result |-> "", sources |-> <<>>]

Init ==
  /\ store \in InitialFiles
  /\ chunks_cache = <<>>
  /\ bm25_index = None
  /\ started = FALSE
  /\ cache_gen = 0
  /\ index_gen = 0
  /\ ingest_st = IngestIdle
  /\ query_st = QueryIdle
  /\ response = None
  /\ call = NoCall

\* an embedding call that is awaited
EmbedAwaited == TRUE

\* embed_texts is a plain call inside `async def query`: the handler does not
\* give the event loop back while it waits for the embedding service
EmbedAwaits == FALSE

\* Whether the event loop is free to run another handler.  The handlers are
\* coroutines of one event loop: query has no await, ingest awaits only
\* upload.read(), remove_file has none.
LoopFree ==
  \/ query_st.pc = "idle"
  \/ query_st.pc = "embed" /\ EmbedAwaits

\* a load that answers from the cache instead of reading the file
LoadChunksFromCache(file) == chunks_cache

\* ChunkStore.load_chunks on a chunks.json that holds `file` (an absent file
\* reads as the empty list)
load_chunks(file) == file

\* _load_index, on a chunks.json that holds `file`
load_index(file) ==
  /\ chunks_cache' = load_chunks(file)
  /\ cache_gen' = cache_gen + 1
  /\ IF load_chunks(file) # <<>>
       THEN /\ bm25_index' = Some(build(load_chunks(file)))
            /\ index_gen' = cache_gen + 1
       ELSE UNCHANGED <<bm25_index, index_gen>>

\* @app.on_event("startup")
Startup ==
  /\ ~started
  /\ started' = TRUE
  /\ load_index(store)
  /\ UNCHANGED <<call, store, ingest_st, query_st, response>>

Response(handler, status) == Some([handler |-> handler, status |-> status])

CanServe == started /\ LoopFree /\ response = None

(***************************************************************************)
(* POST /ingest                                                            *)
(***************************************************************************)
EndsWith(s, suffix) == OccursAt(suffix, s, Len(s) - Len(suffix) + 1)

\* f.filename and f.filename.lower().endswith(".pdf")
IsPdf(upload) ==
  upload.filename # <<>> /\ EndsWith(Lower(upload.filename), <<".", "p", "d", "f">>)

\* the handler up to its first `await upload.read()`
IngestStart(files) ==
  /\ CanServe
  /\ ingest_st.pc = "idle"
  /\ LET pdf_files == SelectSeq(files, IsPdf)
     IN IF files = <<>> \/ pdf_files = <<>>
          THEN /\ response' = Response("ingest", 400)
               /\ UNCHANGED ingest_st
          ELSE /\ ingest_st' = [pc |-> "reading", pdf_files |-> pdf_files,
                                all_chunks |-> <<>>]
               /\ UNCHANGED response
  /\ UNCHANGED <<call, store, chunks_cache, bm25_index, started, cache_gen, index_gen,
                 query_st>>

\* the handler from one `await upload.read()` to the next: the file is
\* extracted and chunked
IngestFile ==
  /\ CanServe
  /\ ingest_st.pc = "reading"
  /\ Len(ingest_st.pdf_files) > 1
  /\ LET pages == extract_text_from_pdf(ingest_st.pdf_files[1])
     IN IF pages = None
          THEN /\ response' = Response("ingest", 400)
               /\ ingest_st' = IngestIdle
          ELSE /\ ingest_st' =
                    [ingest_st EXCEPT
                       !.pdf_files = Tail(@),
                       !.all_chunks = @ \o chunk_text(The(pages), CHUNK_SIZE, CHUNK_OVERLAP)]
               /\ UNCHANGED response
  /\ UNCHANGED <<call, store, chunks_cache, bm25_index, started, cache_gen, index_gen,
                 query_st>>

\* a handler that saves the chunks and reloads the index before it embeds them
IngestFinishSavingFirst ==
  /\ CanServe
  /\ ingest_st.pc = "reading"
  /\ Len(ingest_st.pdf_files) = 1
  /\ ingest_st' = IngestIdle
  /\ LET pages == extract_text_from_pdf(ingest_st.pdf_files[1])
     IN IF pages = None
          THEN /\ response' = Response("ingest", 400)
               /\ UNCHANGED <<store, chunks_cache, bm25_index, cache_gen, index_gen>>
          ELSE LET all_chunks == ingest_st.all_chunks
                                   \o chunk_text(The(pages), CHUNK_SIZE, CHUNK_OVERLAP)
               IN /\ cache_gen < MaxLoads
                  /\ \E embeddings \in [1..Len(all_chunks) -> ChunkVectors] :
                       /\ store' = save_chunks(all_chunks, embeddings)
                       /\ load_index(save_chunks(all_chunks, embeddings))
                  /\ \/ all_chunks # <<>> /\ response' = Response("ingest", 500)
                     \/ response' = Response("ingest", 200)
  /\ UNCHANGED <<call, started, query_st>>

\* the handler from its last `await upload.read()` to its end: the last file
\* is extracted and chunked, the chunks are embedded and saved, the index is
\* reloaded.  embed_texts raises (no key, or the service fails) or answers
\* with one vector per text; it answers [] for no text without any call.
IngestFinish ==
  /\ CanServe
  /\ ingest_st.pc = "reading"
  /\ Len(ingest_st.pdf_files) = 1
  /\ ingest_st' = IngestIdle
  /\ LET pages == extract_text_from_pdf(ingest_st.pdf_files[1])
     IN IF pages = None
          THEN /\ response' = Response("ingest", 400)
               /\ UNCHANGED <<store, chunks_cache, bm25_index, cache_gen, index_gen>>
          ELSE LET all_chunks == ingest_st.all_chunks
                                   \o chunk_text(The(pages), CHUNK_SIZE, CHUNK_OVERLAP)
               IN \/ /\ all_chunks # <<>>
                     /\ response' = Response("ingest", 500)
                     /\ UNCHANGED <<store, chunks_cache, bm25_index, cache_gen, index_gen>>
                  \/ /\ cache_gen < MaxLoads
                     /\ \E embeddings \in [1..Len(all_chunks) -> ChunkVectors] :
                          /\ store' = save_chunks(all_chunks, embeddings)
                          /\ load_index(save_chunks(all_chunks, embeddings))
                     /\ response' = Response("ingest", 200)
  /\ UNCHANGED <<call, started, query_st>>

(***************************************************************************)
(* DELETE /files/{filename}                                                *)
(***************************************************************************)
RemoveFile(filename) ==
  /\ CanServe
  /\ LET chunks == load_chunks(store)
         remaining == SelectSeq(chunks, LAMBDA c : c.source_file # filename)
     IN IF Len(remaining) = Len(chunks)
          THEN /\ response' = Response("remove_file", 404)
               /\ UNCHANGED <<store, chunks_cache, bm25_index, cache_gen, index_gen>>
          ELSE /\ cache_gen < MaxLoads
               /\ store' = replace_chunks(remaining)
               /\ load_index(replace_chunks(remaining))
               /\ response' = Response("remove_file", 200)
  /\ UNCHANGED <<call, started, ingest_st, query_st>>

\* the response of the ingest or delete request goes back to the client
Respond ==
  /\ response # None
  /\ response' = None
  /\ UNCHANGED <<call, store, chunks_cache, bm25_index, started, cache_gen, index_gen,
                 ingest_st, query_st>>

(***************************************************************************)
(* POST /query                                                             *)
(***************************************************************************)
\* the fixed minimum cosine of an answerable query, as a cosine: 1 / sqrt(4)
SIMILARITY_THRESHOLD == [num |-> 1, den |-> 4]

HYBRID_TOP_K == 20
RERANK_TOP_K == 5

\* a gate without the return for GENERAL_CHAT
GateOutcomeWithoutChat(intent, refusal) ==
  IF intent = GREETING THEN "greeting"
  ELSE IF refusal.should_refuse THEN "refusal"
  ELSE "retrieve"

\* the returns of query that come before the pipeline: "retrieve" when none
\* of them is taken
GateOutcome(intent, refusal) ==
  IF intent = GREETING THEN "greeting"
  ELSE IF intent = GENERAL_CHAT THEN "general_chat"
  ELSE IF refusal.should_refuse THEN "refusal"
  ELSE "retrieve"

\* a handler without the test of _chunks_cache
NoDocumentsNever(cache) == FALSE

\* `if not _chunks_cache`
NoDocuments(cache) == cache = <<>>

\* reranked[0][1]
best_score(reranked) == reranked[1][2]

\* a handler without the threshold test
BelowThresholdNever(s) == FALSE

\* best_score < SIMILARITY_THRESHOLD
BelowThreshold(s) == CosLess(s, SIMILARITY_THRESHOLD)

Done(q, result, sources) ==
  [q EXCEPT !.pc = "done", !.result = result, !.sources = sources]

\* the handler up to its call of embed_texts: the question is stripped and
\* classified, the refusal filter runs on a knowledge query, _chunks_cache is
\* tested
QueryStart(raw) ==
  /\ CanServe
  /\ query_st.pc = "idle"
  /\ LET question == Strip(raw)
         intent == detect_intent(question)
         refusal == check_refusal(question)
         gate == GateOutcome(intent, refusal)
         q == [QueryIdle EXCEPT !.question = question]
         classified == [q EXCEPT !.intent = intent]
         filtered == [classified EXCEPT !.reason = refusal.reason]
         checked == [filtered EXCEPT !.cache_reads = {cache_gen}]
     IN query_st' =
          IF question = <<>> THEN Done(q, "error_400", <<>>)
          ELSE IF gate \in {"greeting", "general_chat"} THEN Done(classified, gate, <<>>)
          ELSE IF gate = "refusal" THEN Done(filtered, gate, <<>>)
          ELSE IF NoDocuments(chunks_cache) THEN Done(checked, "no_documents", <<>>)
          ELSE [checked EXCEPT !.pc = "embed"]
  /\ UNCHANGED <<call, store, chunks_cache, bm25_index, started, cache_gen, index_gen,
                 ingest_st, response>>

\* embed_texts([transformed]): it raises, or answers with the query's vector
QueryEmbed ==
  /\ query_st.pc = "embed"
  /\ \/ query_st' = Done([query_st EXCEPT !.calls = @ \cup {"embed"}], "error_500", <<>>)
     \/ \E v \in QueryVectors :
          query_st' = [query_st EXCEPT !.pc = "search", !.embedding = v,
                                       !.calls = @ \cup {"embed"}]
  /\ UNCHANGED <<call, store, chunks_cache, bm25_index, started, cache_gen, index_gen,
                 ingest_st, response>>

\* hybrid_search(query_embedding, transformed, _chunks_cache, _bm25_index, top_k=20)
QuerySearch ==
  /\ query_st.pc = "search"
  /\ query_st' =
       [query_st EXCEPT
          !.pc = "rerank",
          !.rrf_results = hybrid_search(query_st.embedding,
                                        transform_query(query_st.question),
                                        chunks_cache, bm25_index, HYBRID_TOP_K)[1],
          !.calls = @ \cup {"search"},
          !.cache_reads = @ \cup {cache_gen},
          !.index_reads = @ \cup {index_gen}]
  /\ UNCHANGED <<call, store, chunks_cache, bm25_index, started, cache_gen, index_gen,
                 ingest_st, response>>

\* rerank_by_semantic(rrf_results, query_embedding, _chunks_cache, top_k=5) and
\* the two "Insufficient evidence" returns
QueryRerank ==
  /\ query_st.pc = "rerank"
  /\ LET reranked == rerank_by_semantic(query_st.rrf_results, query_st.embedding,
                                        chunks_cache, RERANK_TOP_K)
         q == [query_st EXCEPT !.reranked = reranked,
                               !.calls = @ \cup {"rerank"},
                               !.cache_reads = @ \cup {cache_gen}]
     IN query_st' =
          IF reranked = <<>> THEN Done(q, "insufficient_no_passages", <<>>)
          ELSE IF BelowThreshold(best_score(reranked))
            THEN Done(q, "insufficient_below_threshold", <<>>)
          ELSE [q EXCEPT !.pc = "generate"]
  /\ UNCHANGED <<call, store, chunks_cache, bm25_index, started, cache_gen, index_gen,
                 ingest_st, response>>

\* context_chunks = [_chunks_cache[idx] for idx, _ in reranked], then
\* generate_answer, which raises or answers; a position past the end of the
\* cache is an IndexError
QueryGenerate ==
  /\ query_st.pc = "generate"
  /\ LET reranked == query_st.reranked
         q == [query_st EXCEPT !.cache_reads = @ \cup {cache_gen}]
         called == [q EXCEPT !.calls = @ \cup {"generate"}]
     IN IF \E i \in 1..Len(reranked) : reranked[i][1] >= Len(chunks_cache)
          THEN query_st' = Done(q, "error_500", <<>>)
          ELSE LET context_chunks ==
                     [i \in 1..Len(reranked) |-> chunks_cache[reranked[i][1] + 1]]
                   sources ==
                     [i \in 1..Len(reranked) |->
                        [source_file |-> context_chunks[i].source_file,
                         page |-> context_chunks[i].page]]
               IN \/ query_st' = Done(called, "error_500", <<>>)
                  \/ query_st' = Done(called, "answer", sources)
  /\ UNCHANGED <<call, store, chunks_cache, bm25_index, started, cache_gen, index_gen,
                 ingest_st, response>>

\* the response of the query goes back to the client
QueryReturn ==
  /\ query_st.pc = "done"
  /\ query_st' = QueryIdle
  /\ UNCHANGED <<call, store, chunks_cache, bm25_index, started, cache_gen, index_gen,
                 ingest_st, response>>

Next ==
  \/ Startup
  \/ \E files \in IngestRequests : IngestStart(files)
  \/ IngestFile
  \/ IngestFinish
  \/ \E filename \in DeleteNames : RemoveFile(filename)
  \/ Respond
  \/ \E raw \in Questions : QueryStart(raw)
  \/ QueryEmbed
  \/ QuerySearch
  \/ QueryRerank
  \/ QueryGenerate
  \/ QueryReturn

Spec == Init /\ [][Next]_vars

(***************************************************************************)
(* The ranking functions on their own: the initial states draw the         *)
(* arguments of a call, the actions apply the function                     *)
(***************************************************************************)
MaxChunks == 3
MaxCandidates == 3
MaxRanked == 2

ServerAtRest ==
  /\ store = <<>>
  /\ chunks_cache = <<>>
  /\ bm25_index = None
  /\ started = FALSE
  /\ cache_gen = 0
  /\ index_gen = 0
  /\ ingest_st = IngestIdle
  /\ query_st = QueryIdle
  /\ response = None

\* snapshots of up to MaxChunks fragments, with or without a vector
RankEmbeddings == {None, <<1, 0>>, <<0, 1>>}
RankQueryVectors == {<<2, 1>>, <<-1, 1>>, <<0, 0>>}
Snapshots == UNION {[1..n -> [embedding : RankEmbeddings]] : n \in 0..MaxChunks}

\* fused candidate lists: positions 0..MaxChunks (the last is past the end of
\* every snapshot), each with an RRF total
CandidateLists ==
  UNION {[1..n -> (0..MaxChunks) \X {[num |-> 1, den |-> RRF_K + 1]}] :
           n \in 0..MaxCandidates}

InitRerank ==
  /\ ServerAtRest
  /\ \E chunks \in Snapshots, rrf_results \in CandidateLists,
        q \in RankQueryVectors, top_k \in 0..MaxCandidates :
       call = [fn |-> "args", chunks |-> chunks, rrf_results |-> rrf_results,
               query_embedding |-> q, top_k |-> top_k, result |-> <<>>]

ApplyRerank ==
  /\ call.fn = "args"
  /\ call' = [call EXCEPT
                !.fn = "rerank_by_semantic",
                !.result = rerank_by_semantic(call.rrf_results, call.query_embedding,
                                              call.chunks, call.top_k)]
  /\ UNCHANGED server_vars

ApplySemanticSearch ==
  /\ call.fn = "args"
  /\ call' = [call EXCEPT
                !.fn = "semantic_search",
                !.result = semantic_search(call.query_embedding, call.chunks, call.top_k)]
  /\ UNCHANGED server_vars

NextRerank == ApplyRerank \/ ApplySemanticSearch

SpecRerank == InitRerank /\ [][NextRerank]_vars

\* ranked lists without a repeated position, each entry with a raw score
RawScores == {0, 5}
Injective(f) == \A i, j \in DOMAIN f : f[i][1] = f[j][1] => i = j
RankedLists ==
  {l \in UNION {[1..n -> (0..(MaxChunks - 1)) \X RawScores] : n \in 0..MaxRanked} :
     Injective(l)}
RrfKs == {RRF_K, 0}

InitRrf ==
  /\ ServerAtRest
  /\ \E semantic_results \in RankedLists, keyword_results \in RankedLists,
        k \in RrfKs, top_k \in 0..MaxChunks :
       call = [fn |-> "args", semantic_results |-> semantic_results,
               keyword_results |-> keyword_results, k |-> k, top_k |-> top_k,
               result |-> <<>>]

ApplyRrfMerge ==
  /\ call.fn = "args"
  /\ call' = [call EXCEPT
                !.fn = "rrf_merge",
                !.result = rrf_merge(call.semantic_results, call.keyword_results,
                                     call.k, call.top_k)]
  /\ UNCHANGED server_vars

NextRrf == ApplyRrfMerge

SpecRrf == InitRrf /\ [][NextRrf]_vars


(***************************************************************************)
(* The chunker on its own (backend/ingestion/chunker.py), one step per     *)
(* page and per sentence unit, so that the units a fragment is seeded with *)
(* are part of the state                                                   *)
(***************************************************************************)
MaxPages == 2
MaxWords == 3

\* n words of `len` letters each, joined by `sep`
PageText(n, len, sep) ==
  [i \in 1..(n * len + (n - 1) * Len(sep)) |->
     LET o == (i - 1) % (len + Len(sep))
     IN IF o < len THEN "a" ELSE sep[o - len + 1]]

\* the arguments of chunk_text: up to MaxPages pages of up to MaxWords words
\* each (none is the empty text), the words short, or adding up to more than
\* the ceiling of a unit, or each longer than it; the default sizes and small
\* ones, with the overlap below and above the size
InitChunk ==
  /\ ServerAtRest
  /\ \E len \in {2, 200, MAX_PART_LEN + 1}, sep \in {<<" ">>, <<".", " ">>},
        sizes \in {<<CHUNK_SIZE, CHUNK_OVERLAP>>, <<9, 4>>, <<5, 0>>, <<5, CHUNK_OVERLAP>>} :
       \E words \in UNION {[1..n -> 0..MaxWords] : n \in 0..MaxPages} :
          call = [fn |-> "chunk_text", pc |-> "page",
                  pages |-> [i \in 1..Len(words) |->
                               [text |-> PageText(words[i], len, sep),
                                source_file |-> FileNames.a, page |-> i]],
                  chunk_size |-> sizes[1], overlap |-> sizes[2],
                  done_pages |-> 0, page_data |-> None, units |-> <<>>, sentences |-> <<>>,
                  current |-> <<>>, current_len |-> 0, chunk_idx |-> 0,
                  closed |-> <<>>, seed |-> <<>>,
                  page_chunks |-> <<>>, chunks |-> <<>>, result |-> <<>>]

\* chunk_text takes the next page and _chunk_page_text splits it into units;
\* a page of whitespace gives no chunk
ChunkPage ==
  /\ call.fn = "chunk_text"
  /\ call.pc = "page"
  /\ call.done_pages < Len(call.pages)
  /\ LET page_data == call.pages[call.done_pages + 1]
         taken == [call EXCEPT !.done_pages = @ + 1, !.page_data = Some(page_data),
                               !.current = <<>>, !.current_len = 0, !.chunk_idx = 0,
                               !.closed = <<>>, !.seed = <<>>, !.page_chunks = <<>>]
         sentences == split_sentences(page_data.text, MAX_PART_LEN)
     IN call' = IF Strip(page_data.text) = <<>>
                  THEN [taken EXCEPT !.units = <<>>, !.sentences = <<>>]
                  ELSE [taken EXCEPT !.pc = "sentence", !.units = sentences,
                                     !.sentences = sentences]
  /\ UNCHANGED server_vars

\* one turn of `for sent in sentences`: the current chunk is closed and the
\* next one seeded with the overlap when the unit does not fit, then the unit
\* is added
ChunkSentence ==
  /\ call.fn = "chunk_text"
  /\ call.pc = "sentence"
  /\ call.sentences # <<>>
  /\ LET sent == call.sentences[1]
         sent_len == Len(sent) + 1
         page_data == The(call.page_data)
         kept == OverlapOf(call.current, <<>>, 0, call.overlap)
     IN call' =
          IF Closes(call.current, call.current_len, sent_len, call.chunk_size)
            THEN [call EXCEPT
                    !.sentences = Tail(@),
                    !.page_chunks = Append(@, Chunk(Strip(Join(call.current)),
                                                    page_data.source_file, page_data.page,
                                                    call.chunk_idx)),
                    !.chunk_idx = @ + 1,
                    !.closed = call.current,
                    !.seed = kept[1],
                    !.current = Append(kept[1], sent),
                    !.current_len = kept[2] + sent_len]
            ELSE [call EXCEPT
                    !.sentences = Tail(@),
                    !.current = Append(@, sent),
                    !.current_len = @ + sent_len]
  /\ UNCHANGED server_vars

\* after the loop: the chunk being filled is the last of the page, and
\* chunk_text extends its list with the page's chunks
ChunkPageEnd ==
  /\ call.fn = "chunk_text"
  /\ call.pc = "sentence"
  /\ call.sentences = <<>>
  /\ LET page_data == The(call.page_data)
         page_chunks ==
           IF call.current # <<>>
             THEN Append(call.page_chunks,
                         Chunk(Strip(Join(call.current)), page_data.source_file,
                               page_data.page, call.chunk_idx))
             ELSE call.page_chunks
     IN call' = [call EXCEPT !.pc = "page", !.page_chunks = page_chunks,
                             !.chunks = @ \o page_chunks]
  /\ UNCHANGED server_vars

\* "assign global chunk indices" and return
ChunkReturn ==
  /\ call.fn = "chunk_text"
  /\ call.pc = "page"
  /\ call.done_pages = Len(call.pages)
  /\ call' = [call EXCEPT
                !.pc = "done",
                !.result = [i \in 1..Len(call.chunks) |->
                              [call.chunks[i] EXCEPT !.chunk_index = i - 1]]]
  /\ UNCHANGED server_vars

NextChunk == ChunkPage \/ ChunkSentence \/ ChunkPageEnd \/ ChunkReturn

SpecChunk == InitChunk /\ [][NextChunk]_vars


(***************************************************************************)
(* BM25Index.search on its own (backend/search/keyword.py)                 *)
(***************************************************************************)
MaxDocs == 4

\* an index built from up to MaxDocs fragments (one of them without a token),
\* a query with tokens of the corpus, with none of them or with no token
InitBm25 ==
  /\ ServerAtRest
  /\ LET texts == {<<"c", "a", "t">>, <<"c", "a", "t", " ", "c", "a", "t", " ", "d", "o", "g">>, <<"d", "o", "g">>, <<>>}
         queries == {<<"c", "a", "t">>, <<"D", "o", "g", ",", " ", "c", "a", "t">>, <<"?", "!">>, <<"e", "m", "u">>}
     IN \E chunks \in UNION {[1..n -> [text : texts]] : n \in 0..MaxDocs},
           query \in queries, top_k \in 0..MaxDocs :
          call = [fn |-> "args", chunks |-> chunks, query |-> query, top_k |-> top_k,
                  result |-> <<>>]

ApplySearch ==
  /\ call.fn = "args"
  /\ call' = [call EXCEPT
                !.fn = "search",
                !.result = search(build(call.chunks), call.query, call.top_k)]
  /\ UNCHANGED server_vars

NextBm25 == ApplySearch

SpecBm25 == InitBm25 /\ [][NextBm25]_vars

(***************************************************************************)
(* The properties                                                          *)
(***************************************************************************)
QueryDone == query_st.pc = "done"

\* a knowledge query that passed the refusal filter
PassedGate ==
  /\ query_st.question # <<>>
  /\ query_st.intent = KNOWLEDGE_QUERY
  /\ query_st.reason = REASON_NONE

\* C1: once the process has started, the BM25 index is the one built from the
\* cached snapshot: the same number of fragments, the token list of each
\* position that of the fragment at that position, and built for the current
\* assignment of the cache (no index at all counts for an empty cache).
C1_IndexBuiltFromSnapshot ==
  started =>
    IF bm25_index = None THEN chunks_cache = <<>>
    ELSE /\ The(bm25_index).N = Len(chunks_cache)
         /\ The(bm25_index).doc_tokens =
              [i \in 1..Len(chunks_cache) |-> tokenize(chunks_cache[i].text)]
         /\ index_gen = cache_gen

\* C2: every read a query makes of the cached snapshot and of the BM25 index
\* observes one generation
C2_QueryReadsOneGeneration ==
  Cardinality(query_st.cache_reads \cup query_st.index_reads) <= 1

\* a query answered, all four reads made, after the snapshot was replaced and
\* while an ingest request is in flight
C2_Witness ==
  /\ query_st.result = "answer"
  /\ ingest_st.pc = "reading"
  /\ cache_gen >= 2
  /\ query_st.cache_reads = {cache_gen}
  /\ query_st.index_reads = {cache_gen}

\* C3: whenever no ingest request is in progress (a delete is never in
\* progress: it has no await), the cached snapshot is the list the store holds
C3_CacheEqualsStore ==
  (started /\ ingest_st.pc = "idle") => chunks_cache = store

\* a delete has changed a corpus of several files and left some fragments
C3_Witness ==
  /\ response = Response("remove_file", 200)
  /\ store # <<>>
  /\ chunks_cache = store

\* C4: embedding, search, rerank and generation are reached only for a
\* KNOWLEDGE_QUERY that the refusal filter let through; a GREETING, a
\* GENERAL_CHAT ("ok thanks" is one) or a refused query ends with no evidence
\* and none of those steps invoked
C4_RetrievalOnlyPastGate ==
  /\ query_st.calls # {} => PassedGate
  /\ (/\ QueryDone
      /\ \/ query_st.intent \in {GREETING, GENERAL_CHAT}
         \/ query_st.reason # REASON_NONE)
       => query_st.sources = <<>> /\ query_st.calls = {}
  /\ (QueryDone /\ query_st.question = QuestionTexts.thanks)
       => /\ query_st.intent = GENERAL_CHAT
          /\ query_st.result = "general_chat"
          /\ query_st.calls = {}

\* "ok thanks" was answered as general chat while documents were cached
C4_Witness ==
  /\ QueryDone
  /\ query_st.question = QuestionTexts.thanks
  /\ query_st.result = "general_chat"
  /\ query_st.calls = {}
  /\ chunks_cache # <<>>

\* the question holds a numeral of exactly 16 digits
HasSixteenDigitNumeral(s) ==
  \E i \in 1..Len(s) :
    /\ DigitsAt(s, i, 16)
    /\ ~DigitsAt(s, i - 1, 1)
    /\ ~DigitsAt(s, i + 16, 1)

\* C5: every query that contains a 16-digit numeral ends in a refusal with
\* reason PII and no evidence
C5_SixteenDigitsRefused ==
  (QueryDone /\ HasSixteenDigitNumeral(query_st.question))
    => /\ query_st.result = "refusal"
       /\ query_st.reason = REASON_PII
       /\ query_st.sources = <<>>

\* C6: generation is invoked, and evidence returned, only when the rerank
\* result is not empty and its top entry's score, the cosine of the query
\* vector and that fragment's vector, is at least the threshold; a top score
\* below it ends the request with "insufficient evidence", no evidence and no
\* generation
C6_GenerationOnlyAboveThreshold ==
  /\ ("generate" \in query_st.calls \/ query_st.sources # <<>>)
       => /\ query_st.reranked # <<>>
          /\ query_st.reranked[1][2] =
               Cosine(query_st.embedding,
                      EmbeddingAt(chunks_cache, query_st.reranked[1][1]))
          /\ ~CosLess(query_st.reranked[1][2], SIMILARITY_THRESHOLD)
  /\ (/\ QueryDone
      /\ query_st.reranked # <<>>
      /\ CosLess(query_st.reranked[1][2], SIMILARITY_THRESHOLD))
       => /\ query_st.result = "insufficient_below_threshold"
          /\ query_st.sources = <<>>
          /\ "generate" \notin query_st.calls

\* the top reranked score was below the threshold
C6_Witness ==
  /\ QueryDone
  /\ query_st.reranked # <<>>
  /\ CosLess(query_st.reranked[1][2], SIMILARITY_THRESHOLD)
  /\ query_st.result = "insufficient_below_threshold"

\* C7, as claimed: a knowledge query on an empty corpus ends in the
\* "insufficient evidence" outcome that is reported when retrieval finds no
\* candidate, with no evidence
C7_EmptyCorpusInsufficientEvidence ==
  (QueryDone /\ PassedGate /\ chunks_cache = <<>>)
    => /\ query_st.result = "insufficient_no_passages"
       /\ query_st.sources = <<>>

\* C7, amended: a knowledge query on an empty corpus does not raise; it ends
\* with the "no documents have been ingested" answer and no evidence, before
\* any embedding, search, rerank or generation
C7_EmptyCorpusNoDocuments ==
  (QueryDone /\ PassedGate /\ chunks_cache = <<>>)
    => /\ query_st.result = "no_documents"
       /\ query_st.sources = <<>>
       /\ query_st.calls = {}

\* a knowledge query was answered after everything had been deleted
C7_Witness ==
  /\ QueryDone
  /\ PassedGate
  /\ chunks_cache = <<>>
  /\ bm25_index # None
  /\ query_st.result = "no_documents"

\* C8: the chunk_index values one ingest request persists are 0, 1, 2, ... in
\* the order of emission
C8_PersistedIndicesContiguous ==
  response = Response("ingest", 200)
    => \A i \in 1..Len(store) : store[i].chunk_index = i - 1

Positions(l) == {l[i][1] : i \in 1..Len(l)}

\* C9: rerank_by_semantic returns at most top_k entries, each a position of
\* the candidate list whose fragment has a vector, scored by its cosine, in
\* non-increasing order of cosine, and nothing for no candidate; no fragment
\* without a vector is in the result of semantic_search
C9_RerankKeepsVectorsOnly ==
  /\ call.fn = "rerank_by_semantic" =>
       /\ Len(call.result) <= call.top_k
       /\ \A i \in 1..Len(call.result) :
            /\ call.result[i][1] \in Positions(call.rrf_results)
            /\ call.result[i][1] < Len(call.chunks)
            /\ EmbeddingAt(call.chunks, call.result[i][1]) # None
            /\ call.result[i][2] =
                 Cosine(call.query_embedding, EmbeddingAt(call.chunks, call.result[i][1]))
       /\ \A i, j \in 1..Len(call.result) :
            i < j => ~CosLess(call.result[i][2], call.result[j][2])
       /\ call.rrf_results = <<>> => call.result = <<>>
  /\ call.fn = "semantic_search" =>
       \A i \in 1..Len(call.result) :
         /\ call.result[i][1] < Len(call.chunks)
         /\ EmbeddingAt(call.chunks, call.result[i][1]) # None

\* a rerank that dropped a candidate without a vector, ordered two candidates
\* of different cosine and cut the result to top_k
C9_Witness ==
  /\ call.fn = "rerank_by_semantic"
  /\ \E j \in 1..Len(call.rrf_results) :
       /\ call.rrf_results[j][1] < Len(call.chunks)
       /\ EmbeddingAt(call.chunks, call.rrf_results[j][1]) = None
  /\ Len(call.result) = 1
  /\ call.top_k = 1
  /\ \E j \in 1..Len(call.rrf_results) :
       /\ call.rrf_results[j][1] < Len(call.chunks)
       /\ EmbeddingAt(call.chunks, call.rrf_results[j][1]) # None
       /\ CosLess(Cosine(call.query_embedding,
                         EmbeddingAt(call.chunks, call.rrf_results[j][1])),
                  call.result[1][2])

\* the 1-based rank of position p in list l, 0 when p is not in l
RankIn(l, p) ==
  IF p \in Positions(l) THEN CHOOSE r \in 1..Len(l) : l[r][1] = p ELSE 0

\* the total the claim gives position p: 1/(k+r) for each list that ranks it
RrfTotal(a, b, k, p) ==
  LET ra == RankIn(a, p)
      rb == RankIn(b, p)
  IN IF ra # 0 /\ rb # 0 THEN FracAdd([num |-> 1, den |-> k + ra], [num |-> 1, den |-> k + rb])
     ELSE IF ra # 0 THEN [num |-> 1, den |-> k + ra]
     ELSE [num |-> 1, den |-> k + rb]

WithoutScores(l) == [i \in 1..Len(l) |-> <<l[i][1], 0>>]

\* C10: rrf_merge gives each position the total of 1/(k+r) over the lists
\* that rank it, returns the positions of either list once each, sorted by
\* non-increasing total and cut to top_k (the positions left out have no
\* larger total), whatever raw scores the lists carry
C10_RrfMerge ==
  call.fn = "rrf_merge" =>
    LET a == call.semantic_results
        b == call.keyword_results
        out == call.result
        all == Positions(a) \cup Positions(b)
    IN /\ Positions(out) \subseteq all
       /\ \A i, j \in 1..Len(out) : out[i][1] = out[j][1] => i = j
       /\ Len(out) = IF call.top_k < Cardinality(all) THEN call.top_k
                     ELSE Cardinality(all)
       /\ \A i \in 1..Len(out) :
            FracEq(out[i][2], RrfTotal(a, b, call.k, out[i][1]))
       /\ \A i, j \in 1..Len(out) : i < j => ~FracLess(out[i][2], out[j][2])
       /\ \A p \in all \ Positions(out) : \A i \in 1..Len(out) :
            ~FracLess(out[i][2], RrfTotal(a, b, call.k, p))
       /\ out = rrf_merge(WithoutScores(a), WithoutScores(b), call.k, call.top_k)
       /\ (a = <<>> /\ b = <<>>) => out = <<>>
       /\ \A p \in Positions(out) :
            (RankIn(a, p) = 1 /\ RankIn(b, p) = 1)
              => FracEq(out[RankIn(out, p)][2], [num |-> 2, den |-> call.k + 1])

\* a position first in both lists got 2/(k+1), another in one list only got
\* 1/(k+2), and a third was cut by top_k
C10_Witness ==
  /\ call.fn = "rrf_merge"
  /\ call.k = RRF_K
  /\ Len(call.result) = 2
  /\ Cardinality(Positions(call.semantic_results) \cup Positions(call.keyword_results)) = 3
  /\ RankIn(call.semantic_results, call.result[1][1]) = 1
  /\ RankIn(call.keyword_results, call.result[1][1]) = 1
  /\ FracEq(call.result[1][2], [num |-> 2, den |-> RRF_K + 1])
  /\ FracEq(call.result[2][2], [num |-> 1, den |-> RRF_K + 2])
  /\ \E i \in 1..Len(call.semantic_results) : call.semantic_results[i][2] # 0

\* C11: every fragment of a page is no longer than max_chars plus the length
\* of one of the page's sentence units, and no sentence unit is longer than
\* the ceiling of the splitter
C11_FragmentLengthBounded ==
  call.fn = "chunk_text" =>
    /\ \A i \in 1..Len(call.units) : Len(call.units[i]) <= MAX_PART_LEN
    /\ \A i \in 1..Len(call.page_chunks) :
         \E j \in 1..Len(call.units) :
           Len(call.page_chunks[i].text) <= call.chunk_size + Len(call.units[j])

IsSuffix(a, b) == Len(a) <= Len(b) /\ a = SubSeq(b, Len(b) - Len(a) + 1, Len(b))

\* C12: the units that seed a fragment are a suffix of the units of the
\* fragment closed before it on the same page, of combined length at most
\* overlap_chars; the first fragment of a page is seeded with nothing and
\* holds units of that page only
C12_OverlapIsBoundedSuffix ==
  call.fn = "chunk_text" =>
    /\ IsSuffix(call.seed, call.closed)
    /\ call.seed # <<>> => Len(Join(call.seed)) <= call.overlap
    /\ call.chunk_idx = 0 => call.seed = <<>> /\ call.closed = <<>>
    /\ call.pc = "sentence" =>
         /\ SubSeq(call.current, 1, Len(call.seed)) = call.seed
         /\ \A i \in 1..Len(call.current) :
              \E j \in 1..Len(call.units) : call.current[i] = call.units[j]
    /\ call.chunk_idx = 0 => call.current = SubSeq(call.units, 1, Len(call.current))

\* on the second page, a fragment of two units was closed and its last unit
\* alone seeds the next fragment
C12_Witness ==
  /\ call.fn = "chunk_text"
  /\ call.pc = "sentence"
  /\ call.done_pages = 2
  /\ call.chunk_idx = 1
  /\ Len(call.closed) = 2
  /\ Len(call.seed) = 1
  /\ call.overlap < call.chunk_size

\* the text, stripped, is one sentence: it has no newline and no terminal
\* punctuation followed by whitespace
SingleSentence(text) ==
  LET t == Strip(text)
  IN /\ t # <<>>
     /\ \A i \in 1..Len(t) :
          /\ t[i] # "\n"
          /\ ~(i > 1 /\ t[i - 1] \in SentenceEnd /\ t[i] \in Whitespace)

\* the page just chunked
PageChunked == call.fn = "chunk_text" /\ call.pc = "page" /\ call.page_data # None

Before(x, y) == x[2] > y[2] \/ (x[2] = y[2] /\ x[1] < y[1])

\* C14: BM25Index.search returns the positions of strictly positive score
\* (those of the fragments that share a token with the query), each once with
\* its score, by non-increasing score and ascending position among equal
\* scores, cut to top_k, the positions left out coming after those returned;
\* it returns nothing when the index holds no fragment or the query no token
C14_SearchPositiveSortedTruncated ==
  call.fn = "search" =>
    LET out == call.result
        index == build(call.chunks)
        q == tokenize(call.query)
        positive == {i \in 0..(Len(call.chunks) - 1) : score(index, q, i) > 0}
    IN /\ Positions(out) \subseteq positive
       /\ positive = {i \in 0..(Len(call.chunks) - 1) :
                        Range(q) \cap Range(tokenize(call.chunks[i + 1].text)) # {}}
       /\ \A i \in 1..Len(out) : out[i][2] = score(index, q, out[i][1])
       /\ Len(out) = IF call.top_k < Cardinality(positive) THEN call.top_k
                     ELSE Cardinality(positive)
       /\ \A i, j \in 1..Len(out) : i < j => Before(out[i], out[j])
       /\ \A p \in positive \ Positions(out) : \A i \in 1..Len(out) :
            Before(out[i], <<p, score(index, q, p)>>)
       /\ (call.chunks = <<>> \/ q = <<>>) => out = <<>>

\* a search returned two fragments of equal score in the order of their
\* positions, left out a fragment of score 0 and cut off a fragment of lower
\* score
C14_Witness ==
  /\ call.fn = "search"
  /\ call.top_k = 2
  /\ Len(call.result) = 2
  /\ call.result[1][2] = call.result[2][2]
  /\ call.result[1][1] < call.result[2][1]
  /\ \E i \in 0..(Len(call.chunks) - 1) :
       score(build(call.chunks), tokenize(call.query), i) = 0
  /\ \E i \in 0..(Len(call.chunks) - 1) :
       /\ score(build(call.chunks), tokenize(call.query), i) > 0
       /\ i \notin Positions(call.result)

\* what a mutation may change: chunks.json, _chunks_cache, _bm25_index and the
\* count of their reloads
Corpus == <<store, chunks_cache, bm25_index, cache_gen, index_gen>>

\* the step answers an ingest or delete request with an error
Fails(r) == r # None /\ The(r).status # 200

\* C15: a step of an ingest or delete request that answers with an error (400
\* for no PDF or a failed extraction, 500 for a failed embedding, 404 for an
\* unknown file name) leaves the file, the cached snapshot and the index as
\* they were and ends the handler, and so does every step of such a request
\* before it: after startup only a step that answers 200 changes them
C15_FailedMutationChangesNothing ==
  [][/\ (response = None /\ Fails(response')) =>
          /\ Corpus' = Corpus
          /\ The(response').handler = "ingest" => ingest_st' = IngestIdle
     /\ (started /\ Corpus' # Corpus) =>
          response = None /\ response' # None /\ The(response').status = 200
     /\ Fails(response) => Corpus' = Corpus /\ ingest_st' = ingest_st]_vars

\* an ingest fails at the embedding while chunks.json, the snapshot and the
\* index hold fragments
C15_Witness ==
  /\ response = Response("ingest", 500)
  /\ store # <<>>
  /\ chunks_cache = store
  /\ bm25_index # None
====
